---- MODULE Spec2Model ----
(***************************************************************************)
(* Commitment / nullifier / Merkle-proof protocol of the order engine.     *)
(*                                                                         *)
(* Byte strings are sequences of chunks.  A chunk is <<0, bs>> for the     *)
(* literal bytes bs, or <<1, input>> for the 32-byte SHA-256 digest of the *)
(* byte string input: digests are kept symbolic, so two digests are equal  *)
(* exactly when their inputs are equal byte strings (collision-free hash). *)
(***************************************************************************)
EXTENDS Integers, Sequences, FiniteSets, TLC

VARIABLES
    leaves,        \* CommitmentMerkleTree.leaves
    users,         \* CommitmentMerkleTree.users
    tree_root,     \* caller's copy of the last build_tree() root, with the leaf count it was built at
    proof,         \* caller's copy of the last generate_proof() result, with the leaf count it was made at
    used_nullifiers, \* the replay set (nullifier_hash -> label)
    is_replay,     \* outcome of the last execution attempt against the replay set
    attempt,       \* the nullifier hash of the last execution attempt
    accepted,      \* how many times each nullifier hash has been accepted
    lib_in,        \* arguments of the library call being made
    lib_out,       \* result of the last library call
    host,          \* the values the host has prepared for the proof request
    stdin,         \* SP1Stdin: values written by the host, in order
    pc,            \* position of the host / proof program
    regs,          \* the proof program's locals
    public_values, \* values committed by the proof program, in order
    prev_run       \* an earlier invalid run: its nullifier, wallet and amounts, and its public values

treeVars == <<leaves, users, tree_root, proof>>
replayVars == <<used_nullifiers, is_replay, attempt, accepted>>
libVars == <<lib_in, lib_out>>
progVars == <<host, stdin, pc, regs, public_values, prev_run>>
vars == <<leaves, users, tree_root, proof, used_nullifiers, is_replay, attempt,
          accepted, lib_in, lib_out, host, stdin, pc, regs, public_values, prev_run>>

(***************************************************************************)
(* Bounds of the model.                                                    *)
(***************************************************************************)
MaxLeaves == 4
MaxPrice == 2
MaxTime == 2
MaxAmount == 1

(***************************************************************************)
(* Bytes and SHA-256.                                                      *)
(***************************************************************************)
FillBytes(b, n) == [i \in 1..n |-> b]

Array32(b) == <<0, FillBytes(b, 32)>>

Array20(b) == <<0, FillBytes(b, 20)>>

RECURSIVE LeBytes(_, _)
LeBytes(x, n) == IF n = 0 THEN <<>> ELSE <<x % 256>> \o LeBytes(x \div 256, n - 1)

to_le_bytes(x) == <<0, LeBytes(x, 8)>>

Sha256_new == <<>>

update(hasher, chunk) ==
    IF chunk[1] = 0 /\ Len(hasher) > 0 /\ hasher[Len(hasher)][1] = 0
    THEN [hasher EXCEPT ![Len(hasher)] = <<0, hasher[Len(hasher)][2] \o chunk[2]>>]
    ELSE Append(hasher, chunk)

finalize(hasher) == <<1, hasher>>

\* the bytes a hasher was fed before finalize() produced `digest`
hasher_input(digest) == digest[2]

\* number of bytes of a byte string: a digest is a [u8; 32]
RECURSIVE ByteLen(_)
ByteLen(bytes) ==
    IF bytes = <<>>
    THEN 0
    ELSE (IF Head(bytes)[1] = 0 THEN Len(Head(bytes)[2]) ELSE 32) + ByteLen(Tail(bytes))

TAG_NULLIFIER_HASH == <<0, <<78, 85, 76, 76, 73, 70, 73, 69, 82, 95, 72, 65, 83, 72>>>>

TAG_COMMITMENT_HASH == <<0, <<67, 79, 77, 77, 73, 84, 77, 69, 78, 84, 95, 72, 65, 83, 72>>>>

TAG_MERKLE_NODE == <<0, <<77, 69, 82, 75, 76, 69, 95, 78, 79, 68, 69>>>>

TAG_BALANCE_LEAF == <<0, <<66, 65, 76, 65, 78, 67, 69, 95, 76, 69, 65, 70>>>>

TAG_ORDER_NULLIFIER == <<0, <<79, 82, 68, 69, 82, 95, 78, 85, 76, 76, 73, 70, 73, 69, 82>>>>

Zero32 == Array32(0)

(***************************************************************************)
(* lib.rs: hashes.                                                         *)
(***************************************************************************)
hash_order(order) ==
    LET h1 == update(Sha256_new, order.wallet_address)
        h2 == update(h1, order.token_in)
        h3 == update(h2, order.token_out)
        h4 == update(h3, to_le_bytes(order.amount_in))
        h5 == update(h4, to_le_bytes(order.min_amount_out))
        h6 == update(h5, to_le_bytes(order.target_price))
        h7 == update(h6, to_le_bytes(order.deadline))
    IN  finalize(h7)

compute_nullifier_hash(nullifier) ==
    finalize(update(update(Sha256_new, TAG_NULLIFIER_HASH), nullifier))

compute_commitment_hash_as_node(order, nullifier, balance) ==
    LET h1 == update(Sha256_new, TAG_MERKLE_NODE)
        h2 == update(h1, hash_order(order))
        h3 == update(h2, nullifier)
    IN  finalize(h3)

compute_commitment_hash(order, nullifier, balance) ==
    LET h1 == update(Sha256_new, TAG_COMMITMENT_HASH)
        h2 == update(h1, hash_order(order))
        h3 == update(h2, nullifier)
        h4 == update(h3, to_le_bytes(balance))
    IN  finalize(h4)

generate_order_nullifier(user_secret, order_context) ==
    LET h1 == update(Sha256_new, TAG_ORDER_NULLIFIER)
        h2 == update(h1, user_secret)
        h3 == update(h2, order_context)
    IN  finalize(h3)

(***************************************************************************)
(* script/src/bin/main.rs: CommitmentMerkleTree.                           *)
(***************************************************************************)
hash_pair_swapped(left, right) ==
    finalize(update(update(update(Sha256_new, TAG_MERKLE_NODE), right), left))

hash_pair(left, right) ==
    finalize(update(update(update(Sha256_new, TAG_MERKLE_NODE), left), right))

next_level_drop_odd(current_level) ==
    [j \in 1..(Len(current_level) \div 2) |->
        hash_pair(current_level[2 * j - 1], current_level[2 * j])]

next_level_zero_pad(current_level) ==
    [j \in 1..((Len(current_level) + 1) \div 2) |->
        LET i == 2 * (j - 1)
            left == current_level[i + 1]
            right == IF i + 1 < Len(current_level) THEN current_level[i + 2] ELSE Zero32
        IN  hash_pair(left, right)]

\* one pass of the inner for loop: the parents of current_level
next_level(current_level) ==
    [j \in 1..((Len(current_level) + 1) \div 2) |->
        LET i == 2 * (j - 1)
            left == current_level[i + 1]
            right == IF i + 1 < Len(current_level) THEN current_level[i + 2] ELSE left
        IN  hash_pair(left, right)]

RECURSIVE build_levels(_, _)
build_levels(levels, current_level) ==
    IF Len(current_level) > 1
    THEN build_levels(Append(levels, next_level(current_level)), next_level(current_level))
    ELSE [root |-> current_level[1], levels |-> levels]

build_tree(lvs) ==
    IF lvs = <<>>
    THEN [root |-> Zero32, levels |-> <<>>]
    ELSE build_levels(<<lvs>>, lvs)

position_or_first(lvs, commitment_hash) ==
    IF \E i \in 1..Len(lvs) : lvs[i] = commitment_hash
    THEN (CHOOSE i \in 1..Len(lvs) :
            /\ lvs[i] = commitment_hash
            /\ \A k \in 1..(i - 1) : lvs[k] # commitment_hash) - 1
    ELSE 0

\* leaves.iter().position(..): the first matching index (0-based), or -1 for None
position(lvs, commitment_hash) ==
    IF \E i \in 1..Len(lvs) : lvs[i] = commitment_hash
    THEN (CHOOSE i \in 1..Len(lvs) :
            /\ lvs[i] = commitment_hash
            /\ \A k \in 1..(i - 1) : lvs[k] # commitment_hash) - 1
    ELSE -1

RECURSIVE proof_loop_zero_pad(_, _, _, _, _)
proof_loop_zero_pad(levels, level, current_index, siblings, indices) ==
    IF level >= Len(levels) - 1
    THEN [ok |-> TRUE, siblings |-> siblings, indices |-> indices]
    ELSE LET sibling_index == IF current_index % 2 = 0
                              THEN current_index + 1
                              ELSE current_index - 1
             sibling == IF sibling_index < Len(levels[level + 1])
                        THEN levels[level + 1][sibling_index + 1]
                        ELSE Zero32
         IN  proof_loop_zero_pad(levels, level + 1, current_index \div 2,
                                 Append(siblings, sibling),
                                 Append(indices, current_index % 2))

RECURSIVE proof_loop_flipped_bits(_, _, _, _, _)
proof_loop_flipped_bits(levels, level, current_index, siblings, indices) ==
    IF level >= Len(levels) - 1
    THEN [ok |-> TRUE, siblings |-> siblings, indices |-> indices]
    ELSE LET sibling_index == IF current_index % 2 = 0
                              THEN current_index + 1
                              ELSE current_index - 1
             sibling == IF sibling_index < Len(levels[level + 1])
                        THEN levels[level + 1][sibling_index + 1]
                        ELSE levels[level + 1][current_index + 1]
         IN  proof_loop_flipped_bits(levels, level + 1, current_index \div 2,
                                     Append(siblings, sibling),
                                     Append(indices, 1 - (current_index % 2)))

\* the for loop of generate_proof, from `level` on
RECURSIVE proof_loop(_, _, _, _, _)
proof_loop(levels, level, current_index, siblings, indices) ==
    IF level >= Len(levels) - 1
    THEN [ok |-> TRUE, siblings |-> siblings, indices |-> indices]
    ELSE LET sibling_index == IF current_index % 2 = 0
                              THEN current_index + 1
                              ELSE current_index - 1
             sibling == IF sibling_index < Len(levels[level + 1])
                        THEN levels[level + 1][sibling_index + 1]
                        ELSE levels[level + 1][current_index + 1]
         IN  proof_loop(levels, level + 1, current_index \div 2,
                        Append(siblings, sibling),
                        Append(indices, current_index % 2))

generate_proof(lvs, commitment_hash) ==
    LET leaf_index == position(lvs, commitment_hash)
    IN  IF leaf_index < 0
        THEN [ok |-> FALSE, siblings |-> <<>>, indices |-> <<>>]
        ELSE proof_loop(build_tree(lvs).levels, 0, leaf_index, <<>>, <<>>)

\* the index operations of generate_proof's for loop, from `level` on: TRUE
\* when one of them is out of bounds (usize arithmetic, Vec indexing)
RECURSIVE proof_loop_panics(_, _, _)
proof_loop_panics(levels, level, current_index) ==
    IF level >= Len(levels) - 1
    THEN FALSE
    ELSE LET sibling_index == IF current_index % 2 = 0
                              THEN current_index + 1
                              ELSE current_index - 1
         IN  \/ sibling_index < 0
             \/ level >= Len(levels)
             \/ (sibling_index >= Len(levels[level + 1])
                 /\ current_index >= Len(levels[level + 1]))
             \/ proof_loop_panics(levels, level + 1, current_index \div 2)

\* generate_proof: TRUE when the call underflows `levels.len() - 1` or indexes
\* out of bounds instead of returning
generate_proof_panics(lvs, commitment_hash) ==
    LET leaf_index == position(lvs, commitment_hash)
    IN  IF leaf_index < 0
        THEN FALSE
        ELSE \/ Len(build_tree(lvs).levels) = 0
             \/ proof_loop_panics(build_tree(lvs).levels, 0, leaf_index)

(***************************************************************************)
(* lib.rs: verify_commitment_merkle_proof.                                 *)
(***************************************************************************)
RECURSIVE merkle_fold(_, _, _, _)
merkle_fold(current_hash, siblings, indices, i) ==
    IF i > Len(siblings)
    THEN current_hash
    ELSE LET h0 == update(Sha256_new, TAG_MERKLE_NODE)
             h2 == IF indices[i] = 0
                   THEN update(update(h0, current_hash), siblings[i])
                   ELSE update(update(h0, siblings[i]), current_hash)
         IN  merkle_fold(finalize(h2), siblings, indices, i + 1)

verify_commitment_merkle_proof(commitment_hash, siblings, indices, expected_root) ==
    IF Len(siblings) # Len(indices)
    THEN FALSE
    ELSE merkle_fold(commitment_hash, siblings, indices, 1) = expected_root

(***************************************************************************)
(* lib.rs: order validation and the composite predicates.                  *)
(***************************************************************************)
validate_order_exclusive_deadline(order, market, expected_hash) ==
    IF market.block_timestamp >= order.deadline
    THEN FALSE
    ELSE IF market.current_price < order.target_price
         THEN FALSE
         ELSE hash_order(order) = expected_hash

validate_order(order, market, expected_hash) ==
    IF market.block_timestamp > order.deadline
    THEN FALSE
    ELSE IF market.current_price < order.target_price
         THEN FALSE
         ELSE hash_order(order) = expected_hash

verify_nullifier_knowledge_commitment_only(commitment, expected_commitment_hash, expected_nullifier_hash) ==
    compute_commitment_hash(commitment.order_data, commitment.nullifier,
                            commitment.balance) = expected_commitment_hash

verify_nullifier_knowledge(commitment, expected_commitment_hash, expected_nullifier_hash) ==
    LET computed_commitment ==
            compute_commitment_hash(commitment.order_data, commitment.nullifier,
                                    commitment.balance)
    IN  IF computed_commitment # expected_commitment_hash
        THEN FALSE
        ELSE IF compute_nullifier_hash(commitment.nullifier) # expected_nullifier_hash
             THEN FALSE
             ELSE TRUE

verify_nullifier_order_strict_balance(commitment, market, commitment_hash, nullifier_hash) ==
    IF ~verify_nullifier_knowledge(commitment, commitment_hash, nullifier_hash)
    THEN FALSE
    ELSE IF commitment.balance <= commitment.order_data.amount_in
         THEN FALSE
         ELSE validate_order(commitment.order_data, market,
                             hash_order(commitment.order_data))

verify_nullifier_order_without_knowledge(commitment, market, commitment_hash, nullifier_hash) ==
    IF commitment.balance < commitment.order_data.amount_in
    THEN FALSE
    ELSE validate_order(commitment.order_data, market,
                        hash_order(commitment.order_data))

verify_nullifier_order(commitment, market, commitment_hash, nullifier_hash) ==
    IF ~verify_nullifier_knowledge(commitment, commitment_hash, nullifier_hash)
    THEN FALSE
    ELSE IF commitment.balance < commitment.order_data.amount_in
         THEN FALSE
         ELSE IF ~validate_order(commitment.order_data, market,
                                 hash_order(commitment.order_data))
              THEN FALSE
              ELSE TRUE

create_order_commitment_order_bound(order, user_secret, balance, order_context) ==
    LET nullifier == generate_order_nullifier(user_secret, hash_order(order))
    IN  [commitment |-> [order_data |-> order, nullifier |-> nullifier, balance |-> balance],
         nullifier_data |-> [nullifier_hash |-> compute_nullifier_hash(nullifier),
                             commitment_hash |->
                                 compute_commitment_hash(order, nullifier, balance)]]

create_order_commitment(order, user_secret, balance, order_context) ==
    LET nullifier == generate_order_nullifier(user_secret, order_context)
    IN  [commitment |-> [order_data |-> order, nullifier |-> nullifier, balance |-> balance],
         nullifier_data |-> [nullifier_hash |-> compute_nullifier_hash(nullifier),
                             commitment_hash |->
                                 compute_commitment_hash(order, nullifier, balance)]]

\* the leaf of the legacy balance tree: H("BALANCE_LEAF" || address || balance)
balance_leaf(address, balance) ==
    LET h1 == update(Sha256_new, TAG_BALANCE_LEAF)
        h2 == update(h1, address)
        h3 == update(h2, to_le_bytes(balance))
    IN  finalize(h3)

verify_merkle_proof_strict_bits(address, balance, siblings, indices, expected_root) ==
    IF Len(siblings) # Len(indices)
    THEN FALSE
    ELSE IF \E i \in 1..Len(indices) : indices[i] \notin {0, 1}
         THEN FALSE
         ELSE merkle_fold(balance_leaf(address, balance), siblings, indices, 1)
                  = expected_root

verify_merkle_proof(address, balance, siblings, indices, expected_root) ==
    IF Len(siblings) # Len(indices)
    THEN FALSE
    ELSE LET h1 == update(Sha256_new, TAG_BALANCE_LEAF)
             h2 == update(h1, address)
             h3 == update(h2, to_le_bytes(balance))
         IN  merkle_fold(finalize(h3), siblings, indices, 1) = expected_root

(***************************************************************************)
(* Input domains: the values the callers pass, within the bounds.          *)
(***************************************************************************)
Wallets == {Array20(1), Array20(2)}

TOKEN_ETH == Array20(10)

TOKEN_USDC == Array20(11)

Secrets == {Array32(1), Array32(2)}

Prices == 0..MaxPrice

Times == 0..MaxTime

Amounts == 0..MaxAmount

Orders ==
    [wallet_address : Wallets, token_in : {TOKEN_ETH}, token_out : {TOKEN_USDC},
     amount_in : Amounts, min_amount_out : {MaxAmount + 1},
     target_price : Prices, deadline : Times]

\* the market data supplied at verification time: mid-range, so that an order's
\* target price and deadline can lie below it, on it and above it
market_conditions == [current_price |-> MaxPrice - 1, block_timestamp |-> MaxTime - 1]

\* User::create_order: the order context is the order's own hash
user_create_order(secret, balance, order) ==
    create_order_commitment(order, secret, balance, hash_order(order))

alice_order ==
    [wallet_address |-> Array20(1), token_in |-> TOKEN_ETH, token_out |-> TOKEN_USDC,
     amount_in |-> MaxAmount, min_amount_out |-> MaxAmount + 1,
     target_price |-> MaxPrice - 1, deadline |-> MaxTime]

bob_order ==
    [wallet_address |-> Array20(2), token_in |-> TOKEN_USDC, token_out |-> TOKEN_ETH,
     amount_in |-> MaxAmount, min_amount_out |-> MaxAmount + 1,
     target_price |-> MaxPrice, deadline |-> MaxTime]

alice_nullifier == user_create_order(Array32(1), MaxAmount, alice_order).nullifier_data

bob_nullifier == user_create_order(Array32(2), MaxAmount, bob_order).nullifier_data

\* the 32-byte values handed to add_commitment / generate_proof
LeafValues == {Zero32, alice_nullifier.commitment_hash, bob_nullifier.commitment_hash}

\* the (commitment hash, user name) pairs the tree owner appends
Entries ==
    {[hash |-> alice_nullifier.commitment_hash, name |-> "Alice"],
     [hash |-> bob_nullifier.commitment_hash, name |-> "Bob"],
     [hash |-> Zero32, name |-> "Mallory"]}

(***************************************************************************)
(* The tree and its callers (demonstrate_nullifier_flow).                  *)
(***************************************************************************)
InitTree ==
    /\ leaves = <<>>
    /\ users = <<>>
    /\ tree_root = [n |-> -1, root |-> Zero32]
    /\ proof = [n |-> -1, leaf |-> Zero32, ok |-> FALSE, siblings |-> <<>>, indices |-> <<>>]

add_commitment_front(commitment_hash, user_name) ==
    /\ Len(leaves) < MaxLeaves
    /\ leaves' = <<commitment_hash>> \o leaves
    /\ users' = <<user_name>> \o users
    /\ UNCHANGED <<tree_root, proof>>

add_commitment(commitment_hash, user_name) ==
    /\ Len(leaves) < MaxLeaves
    /\ leaves' = Append(leaves, commitment_hash)
    /\ users' = Append(users, user_name)
    /\ UNCHANGED <<tree_root, proof>>

BuildTree_memoized ==
    /\ tree_root' = [n |-> Len(leaves),
                     root |-> IF tree_root.n >= 0
                              THEN tree_root.root
                              ELSE build_tree(leaves).root]
    /\ UNCHANGED <<leaves, users, proof>>

BuildTree ==
    /\ tree_root' = [n |-> Len(leaves), root |-> build_tree(leaves).root]
    /\ UNCHANGED <<leaves, users, proof>>

GenerateProof(commitment_hash) ==
    /\ LET r == generate_proof(leaves, commitment_hash)
       IN  proof' = [n |-> Len(leaves), leaf |-> commitment_hash, ok |-> r.ok,
                     siblings |-> r.siblings, indices |-> r.indices]
    /\ UNCHANGED <<leaves, users, tree_root>>

AddCommitment == \E e \in Entries : add_commitment(e.hash, e.name)

RequestProof == \E h \in LeafValues : GenerateProof(h)

(***************************************************************************)
(* Components that take no step in a specification keep these values.      *)
(***************************************************************************)
NoCall == [fn |-> "none"]

IdleReplay ==
    /\ used_nullifiers = <<>>
    /\ is_replay = FALSE
    /\ attempt = Zero32
    /\ accepted = <<>>

IdleLib ==
    /\ lib_in = NoCall
    /\ lib_out = FALSE

NoOutputs ==
    [is_valid |-> FALSE, nullifier_hash |-> Zero32, wallet_address |-> Zero32,
     amount_in |-> 0, min_amount_out |-> 0]

NoRequest ==
    [order |-> alice_order, nullifier |-> Zero32, balance |-> 0, merkle_root |-> Zero32,
     siblings |-> <<>>, indices |-> <<>>, expected_nullifier_hash |-> Zero32,
     outputs |-> NoOutputs]

NoRegs ==
    [nullifier_hash_valid |-> FALSE, merkle_valid |-> FALSE, order_executable |-> FALSE,
     final_validity |-> FALSE]

NoRun ==
    [set |-> FALSE, nullifier |-> Zero32, wallet_address |-> Zero32, amount_in |-> 0,
     min_amount_out |-> 0, order_executable |-> FALSE, public_values |-> <<>>]

IdleProg ==
    /\ host = NoRequest
    /\ stdin = <<>>
    /\ pc = "idle"
    /\ regs = NoRegs
    /\ public_values = <<>>
    /\ prev_run = NoRun

(***************************************************************************)
(* Specification of the commitment tree.                                   *)
(***************************************************************************)
Init == InitTree /\ IdleReplay /\ IdleLib /\ IdleProg

Next ==
    \/ AddCommitment /\ UNCHANGED <<replayVars, libVars, progVars>>
    \/ BuildTree /\ UNCHANGED <<replayVars, libVars, progVars>>
    \/ RequestProof /\ UNCHANGED <<replayVars, libVars, progVars>>

Spec == Init /\ [][Next]_vars

(***************************************************************************)
(* Claims about the tree.                                                  *)
(***************************************************************************)
\* C1: in every reachable tree state, for every leaf value present (duplicates
\* allowed), generate_proof succeeds and the proof verifies against the root
\* build_tree returns for the same state; this covers the leaf just appended
\* and every earlier leaf after further appends, and the proof a caller holds
\* that was generated at the current leaf count.
C1_ProofOfEveryLeafVerifies ==
    /\ \A i \in 1..Len(leaves) :
          LET r == generate_proof(leaves, leaves[i])
          IN  /\ r.ok
              /\ verify_commitment_merkle_proof(leaves[i], r.siblings, r.indices,
                                                build_tree(leaves).root)
    /\ (proof.n = Len(leaves) /\ position(leaves, proof.leaf) >= 0) =>
          /\ proof.ok
          /\ verify_commitment_merkle_proof(proof.leaf, proof.siblings, proof.indices,
                                            build_tree(leaves).root)

\* C1 witness: a tree of at least three leaves with a repeated value, for whose
\* last-appended leaf a proof was generated in this state, and whose first leaf
\* (appended earlier) is a different value.
C1_Witness ==
    /\ Len(leaves) >= 3
    /\ \E i, j \in 1..Len(leaves) : i < j /\ leaves[i] = leaves[j]
    /\ leaves[1] # leaves[Len(leaves)]
    /\ proof.ok
    /\ proof.n = Len(leaves)
    /\ proof.leaf = leaves[Len(leaves)]
    /\ Len(proof.siblings) >= 2

\* C2: a proof generated when the tree held k leaves keeps verifying against
\* the root build_tree returned at leaf count k, whatever was appended since.
C2_IssuedProofStaysValid ==
    (proof.ok /\ tree_root.n = proof.n) =>
        verify_commitment_merkle_proof(proof.leaf, proof.siblings, proof.indices,
                                       tree_root.root)

\* C2 witness: a proof and a root taken at the same leaf count (at least two
\* leaves), with leaves appended afterwards.
C2_Witness ==
    /\ proof.ok
    /\ tree_root.n = proof.n
    /\ proof.n >= 2
    /\ Len(leaves) >= proof.n + 2

\* C3 as stated: every append changes the root build_tree returns, also when
\* the appended value equals an existing leaf.
C3_RootChangesOnEveryAppend ==
    [][leaves' # leaves => build_tree(leaves').root # build_tree(leaves).root]_vars

\* C3 amended: an append changes the root whenever the appended value differs
\* from the current last leaf and, on the empty tree, from the all-zero value.
C3_RootChangesOnFreshAppend ==
    [][(/\ leaves' # leaves
        /\ (leaves # <<>> => leaves'[Len(leaves')] # leaves[Len(leaves)])
        /\ (leaves = <<>> => leaves'[Len(leaves')] # Zero32))
       => build_tree(leaves').root # build_tree(leaves).root]_vars

\* C3 witness: a tree of odd length above one whose last two leaves differ and
\* whose root was rebuilt after the last append and differs from the root of
\* the tree without that leaf.
C3_Witness ==
    /\ Len(leaves) >= 3
    /\ Len(leaves) % 2 = 1
    /\ leaves[Len(leaves)] # leaves[Len(leaves) - 1]
    /\ tree_root.n = Len(leaves)
    /\ tree_root.root # build_tree(SubSeq(leaves, 1, Len(leaves) - 1)).root

\* C11: generate_proof for a value that is not among the leaves (any value on
\* the empty tree included) returns the error result and no proof, without an
\* out-of-bounds index or an underflow, and the call leaves the leaf and label
\* sequences as they were.
C11_AbsentLeafIsExplicitError ==
    /\ [](\A h \in LeafValues :
            (\A i \in 1..Len(leaves) : leaves[i] # h) =>
                /\ generate_proof(leaves, h) =
                       [ok |-> FALSE, siblings |-> <<>>, indices |-> <<>>]
                /\ ~generate_proof_panics(leaves, h))
    /\ []((proof.n = Len(leaves) /\ \A i \in 1..Len(leaves) : leaves[i] # proof.leaf) =>
            (~proof.ok /\ proof.siblings = <<>> /\ proof.indices = <<>>))
    /\ []((proof.n = Len(leaves) /\ \E i \in 1..Len(leaves) : leaves[i] = proof.leaf) =>
            proof.ok)
    /\ [][(proof' # proof /\ ~proof'.ok) => (leaves' = leaves /\ users' = users)]_vars

\* C11 witness: a proof was requested, on a tree of at least two leaves, for a
\* value that is not among them, and the error result came back.
C11_Witness ==
    /\ Len(leaves) >= 2
    /\ Len(users) = Len(leaves)
    /\ proof.n = Len(leaves)
    /\ \A i \in 1..Len(leaves) : leaves[i] # proof.leaf
    /\ ~proof.ok

\* C12: build_tree is a function of the leaf sequence alone: whatever builds,
\* proof generations and appends came before, the root a caller received at
\* leaf count n is the root of the first n leaves, the proof it received at
\* leaf count n is the proof over the first n leaves, and the empty tree gives
\* the all-zero root and no levels.
C12_BuildIsDeterministic ==
    /\ build_tree(<<>>) = [root |-> Zero32, levels |-> <<>>]
    /\ tree_root.n = 0 => tree_root.root = Zero32
    /\ tree_root.n >= 0 =>
          tree_root.root = build_tree(SubSeq(leaves, 1, tree_root.n)).root
    /\ proof.n >= 0 =>
          [ok |-> proof.ok, siblings |-> proof.siblings, indices |-> proof.indices]
              = generate_proof(SubSeq(leaves, 1, proof.n), proof.leaf)

\* C12 witness: the root was built at the current leaf count of at least three
\* after a proof had been generated (and the levels built) at a smaller count.
C12_Witness ==
    /\ Len(leaves) >= 3
    /\ tree_root.n = Len(leaves)
    /\ tree_root.root # Zero32
    /\ proof.ok
    /\ proof.n >= 1
    /\ proof.n < Len(leaves)

\* C13: in the levels build_tree returns, each level above the leaves has
\* ceil(n/2) nodes for the n nodes below it; parent j is the digest of
\* "MERKLE_NODE", the node at 2j and the node at 2j+1 in that order, and when the
\* level below has odd length the last parent pairs the last node with itself
\* (not with a zero node); a 3-leaf tree has root H(H(L0,L1), H(L2,L2)).
C13_OddLevelPairsLastWithItself ==
    LET H(l, r) == finalize(update(update(update(Sha256_new, TAG_MERKLE_NODE), l), r))
        built == build_tree(leaves)
        levels == built.levels
    IN  /\ leaves # <<>> =>
              /\ levels[1] = leaves
              /\ Len(levels[Len(levels)]) = 1
              /\ built.root = levels[Len(levels)][1]
        /\ \A k \in 1..(Len(levels) - 1) :
              LET below == levels[k]
                  above == levels[k + 1]
              IN  /\ Len(below) > 1
                  /\ Len(above) = (Len(below) + 1) \div 2
                  /\ \A j \in 1..Len(above) :
                        above[j] = IF 2 * j <= Len(below)
                                   THEN H(below[2 * j - 1], below[2 * j])
                                   ELSE H(below[2 * j - 1], below[2 * j - 1])
        /\ Len(leaves) = 3 =>
              built.root = H(H(leaves[1], leaves[2]), H(leaves[3], leaves[3]))
        /\ (tree_root.n = 3 /\ Len(leaves) >= 3) =>
              tree_root.root = H(H(leaves[1], leaves[2]), H(leaves[3], leaves[3]))

\* C13 witness: the root of a tree of three different leaves, the last of them
\* not the zero value, was built.
C13_Witness ==
    /\ Len(leaves) = 3
    /\ tree_root.n = 3
    /\ leaves[1] # leaves[2]
    /\ leaves[2] # leaves[3]
    /\ leaves[1] # leaves[3]
    /\ leaves[3] # Zero32
    /\ tree_root.root = hash_pair(hash_pair(leaves[1], leaves[2]),
                                  hash_pair(leaves[3], leaves[3]))

\* C16: the tree is append-only: the label sequence is as long as the leaf
\* sequence; every step leaves both sequences alone or adds one leaf and one
\* label at their ends, keeping every earlier leaf and label in place; and a
\* step that builds the root or generates a proof changes neither sequence.
C16_AppendOnly ==
    /\ [](Len(users) = Len(leaves))
    /\ [][\/ (leaves' = leaves /\ users' = users)
          \/ /\ Len(leaves') = Len(leaves) + 1
             /\ Len(users') = Len(users) + 1
             /\ SubSeq(leaves', 1, Len(leaves)) = leaves
             /\ SubSeq(users', 1, Len(users)) = users
             /\ \E e \in Entries : /\ leaves'[Len(leaves')] = e.hash
                                    /\ users'[Len(users')] = e.name]_vars
    /\ [][(tree_root' # tree_root \/ proof' # proof) =>
             (leaves' = leaves /\ users' = users)]_vars

\* C16 witness: three different leaves were appended, then the root was
\* built and a proof generated, and the first leaf is still the first one
\* appended under its label.
C16_Witness ==
    /\ Len(leaves) = 3
    /\ users = <<"Bob", "Mallory", "Alice">>
    /\ leaves = <<bob_nullifier.commitment_hash, Zero32, alice_nullifier.commitment_hash>>
    /\ tree_root.n = 3
    /\ proof.n = 3
    /\ proof.ok

\* C17 as stated: for n >= 1 leaves the proof of a present leaf has as many
\* siblings as path bits, ceil(log2(n)) of each (none for a single leaf, whose
\* root is the leaf); a bit is 0 for a left child and 1 for a right child; and
\* the recorded sibling is the node itself exactly when the sibling index is
\* past the end of the level.
C17_SiblingIsNodeExactlyWhenPastEnd ==
    LET CeilLog2(n) == CHOOSE k \in 0..n : 2^k >= n /\ \A m \in 0..(k - 1) : 2^m < n
        levels == build_tree(leaves).levels
    IN  /\ Len(leaves) = 1 => build_tree(leaves).root = leaves[1]
        /\ (proof.ok /\ proof.n = Len(leaves)) =>
              /\ Len(proof.siblings) = Len(proof.indices)
              /\ Len(proof.siblings) = CeilLog2(Len(leaves))
        /\ \A i \in 1..Len(leaves) :
              LET r == generate_proof(leaves, leaves[i])
                  leaf_index == CHOOSE p \in 0..(i - 1) :
                                    /\ leaves[p + 1] = leaves[i]
                                    /\ \A q \in 0..(p - 1) : leaves[q + 1] # leaves[i]
              IN  /\ r.ok
                  /\ Len(r.siblings) = Len(r.indices)
                  /\ Len(r.siblings) = CeilLog2(Len(leaves))
                  /\ \A k \in 1..Len(r.siblings) :
                        LET current_index == leaf_index \div 2^(k - 1)
                            sibling_index == IF current_index % 2 = 0
                                             THEN current_index + 1
                                             ELSE current_index - 1
                            node == levels[k][current_index + 1]
                            past_end == sibling_index >= Len(levels[k])
                        IN  /\ r.indices[k] = (IF current_index % 2 = 0 THEN 0 ELSE 1)
                            /\ past_end => r.siblings[k] = node
                            /\ ~past_end => r.siblings[k] = levels[k][sibling_index + 1]
                            /\ (r.siblings[k] = node) <=> past_end

\* C17 amended: the same lengths and bits; the recorded sibling is the node
\* itself when the sibling index is past the end of the level and the node at
\* the sibling index otherwise, so it has the node's own value exactly when the
\* index is past the end or the two adjacent nodes are equal.
C17_ProofShape ==
    LET CeilLog2(n) == CHOOSE k \in 0..n : 2^k >= n /\ \A m \in 0..(k - 1) : 2^m < n
        levels == build_tree(leaves).levels
    IN  /\ Len(leaves) = 1 => build_tree(leaves).root = leaves[1]
        /\ (proof.ok /\ proof.n = Len(leaves)) =>
              /\ Len(proof.siblings) = Len(proof.indices)
              /\ Len(proof.siblings) = CeilLog2(Len(leaves))
        /\ \A i \in 1..Len(leaves) :
              LET r == generate_proof(leaves, leaves[i])
                  leaf_index == CHOOSE p \in 0..(i - 1) :
                                    /\ leaves[p + 1] = leaves[i]
                                    /\ \A q \in 0..(p - 1) : leaves[q + 1] # leaves[i]
              IN  /\ r.ok
                  /\ Len(r.siblings) = Len(r.indices)
                  /\ Len(r.siblings) = CeilLog2(Len(leaves))
                  /\ \A k \in 1..Len(r.siblings) :
                        LET current_index == leaf_index \div 2^(k - 1)
                            sibling_index == IF current_index % 2 = 0
                                             THEN current_index + 1
                                             ELSE current_index - 1
                            node == levels[k][current_index + 1]
                            past_end == sibling_index >= Len(levels[k])
                        IN  /\ r.indices[k] = (IF current_index % 2 = 0 THEN 0 ELSE 1)
                            /\ past_end => r.siblings[k] = node
                            /\ ~past_end => r.siblings[k] = levels[k][sibling_index + 1]
                            /\ (r.siblings[k] = node) <=>
                                  (past_end \/ levels[k][sibling_index + 1] = node)

\* C17 witness: the proof of the third of three different leaves was
\* generated: two siblings, the first of them the leaf itself, path bits 0, 1.
C17_Witness ==
    /\ Len(leaves) = 3
    /\ leaves[1] # leaves[2]
    /\ leaves[2] # leaves[3]
    /\ leaves[1] # leaves[3]
    /\ proof.ok
    /\ proof.n = 3
    /\ proof.leaf = leaves[3]
    /\ proof.siblings = <<leaves[3], hash_pair(leaves[1], leaves[2])>>
    /\ proof.indices = <<0, 1>>

\* C20: membership soundness: in every reachable tree state, the empty tree
\* included, a 32-byte value that some sibling list and path-bit list make
\* verify_commitment_merkle_proof accept against the root built from that
\* state is one of the tree's leaves.
C20_OnlyLeavesVerify ==
    LET root == build_tree(leaves).root
        Values == LeafValues \cup {hash_pair(x, y) : x \in LeafValues, y \in LeafValues}
        Paths == {[siblings |-> <<>>, indices |-> <<>>]}
                 \cup {[siblings |-> <<v>>, indices |-> <<b>>] : v \in Values, b \in {0, 1}}
    IN  \A c \in Values : \A path \in Paths :
            verify_commitment_merkle_proof(c, path.siblings, path.indices, root)
                => \E i \in 1..Len(leaves) : leaves[i] = c

(***************************************************************************)
(* Specification of the library functions: the arguments are drawn in      *)
(* InitLib and each action makes one call.                                 *)
(***************************************************************************)
InitLib ==
    /\ lib_in \in {[fn |-> "args", order |-> o, user_secret |-> s, balance |-> b,
                    order_context |-> c, market |-> market_conditions] :
                      o \in Orders, s \in Secrets, b \in Amounts,
                      c \in {hash_order(alice_order), Zero32}}
    /\ lib_out = FALSE

\* the public hashes a caller may hand to the verifier next to the right ones
HashCandidates(pair) ==
    {pair.nullifier_data.commitment_hash,
     pair.nullifier_data.nullifier_hash,
     compute_commitment_hash(pair.commitment.order_data, pair.commitment.nullifier,
                             pair.commitment.balance + 1)}

DigestCandidates(order) ==
    {hash_order(order),
     hash_order([order EXCEPT !.deadline = order.deadline + 1]),
     Zero32}

CallCreateOrderCommitment ==
    /\ lib_in.fn = "args"
    /\ lib_out' = create_order_commitment(lib_in.order, lib_in.user_secret,
                                          lib_in.balance, lib_in.order_context)
    /\ lib_in' = [lib_in EXCEPT !.fn = "create_order_commitment"]

CallVerifyNullifierKnowledge ==
    /\ lib_in.fn = "create_order_commitment"
    /\ \E ech \in HashCandidates(lib_out), enh \in HashCandidates(lib_out) :
          /\ lib_in' = [fn |-> "verify_nullifier_knowledge",
                        commitment |-> lib_out.commitment,
                        nullifier_data |-> lib_out.nullifier_data,
                        market |-> lib_in.market,
                        expected_commitment_hash |-> ech,
                        expected_nullifier_hash |-> enh]
          /\ lib_out' = verify_nullifier_knowledge(lib_out.commitment, ech, enh)

CallVerifyNullifierOrder ==
    /\ lib_in.fn = "create_order_commitment"
    /\ \E ech \in HashCandidates(lib_out), enh \in HashCandidates(lib_out) :
          /\ lib_in' = [fn |-> "verify_nullifier_order",
                        commitment |-> lib_out.commitment,
                        nullifier_data |-> lib_out.nullifier_data,
                        market |-> lib_in.market,
                        expected_commitment_hash |-> ech,
                        expected_nullifier_hash |-> enh]
          /\ lib_out' = verify_nullifier_order(lib_out.commitment, lib_in.market, ech, enh)

\* a second commitment for the same user secret and order context, with
\* another order and balance
CallCreateOrderCommitmentAgain ==
    /\ lib_in.fn = "create_order_commitment"
    /\ \E w \in Wallets, a \in Amounts, b \in Amounts :
          LET order == [lib_in.order EXCEPT !.wallet_address = w, !.amount_in = a]
          IN  /\ lib_in' = [fn |-> "create_order_commitment_again",
                            order |-> order, user_secret |-> lib_in.user_secret,
                            balance |-> b, order_context |-> lib_in.order_context,
                            first |-> lib_out,
                            first_order |-> lib_in.order,
                            first_balance |-> lib_in.balance]
              /\ lib_out' = create_order_commitment(order, lib_in.user_secret, b,
                                                    lib_in.order_context)

\* sibling lists, path-bit lists (u8 values) and roots handed to the legacy
\* verifier for a leaf
LegacySiblings == {<<>>, <<alice_nullifier.commitment_hash>>,
                   <<alice_nullifier.commitment_hash, bob_nullifier.commitment_hash>>}

LegacyIndices == {<<>>, <<0>>, <<1>>, <<2>>, <<0, 1>>, <<255, 0>>}

LegacyRoots(leaf) ==
    {leaf, Zero32,
     hash_pair(leaf, alice_nullifier.commitment_hash),
     hash_pair(alice_nullifier.commitment_hash, leaf),
     hash_pair(hash_pair(alice_nullifier.commitment_hash, leaf),
               bob_nullifier.commitment_hash)}

CallVerifyMerkleProof ==
    /\ lib_in.fn = "args"
    /\ \E sibs \in LegacySiblings, idx \in LegacyIndices,
          root \in LegacyRoots(balance_leaf(lib_in.order.wallet_address, lib_in.balance)) :
          /\ lib_in' = [fn |-> "verify_merkle_proof",
                        address |-> lib_in.order.wallet_address,
                        balance |-> lib_in.balance,
                        siblings |-> sibs, indices |-> idx, expected_root |-> root]
          /\ lib_out' = verify_merkle_proof(lib_in.order.wallet_address, lib_in.balance,
                                            sibs, idx, root)

CallValidateOrder ==
    /\ lib_in.fn = "args"
    /\ \E d \in DigestCandidates(lib_in.order) :
          /\ lib_in' = [fn |-> "validate_order", order |-> lib_in.order,
                        market |-> lib_in.market, expected_hash |-> d]
          /\ lib_out' = validate_order(lib_in.order, lib_in.market, d)

NextLib ==
    \/ CallCreateOrderCommitment /\ UNCHANGED <<treeVars, replayVars, progVars>>
    \/ CallVerifyNullifierKnowledge /\ UNCHANGED <<treeVars, replayVars, progVars>>
    \/ CallVerifyNullifierOrder /\ UNCHANGED <<treeVars, replayVars, progVars>>
    \/ CallValidateOrder /\ UNCHANGED <<treeVars, replayVars, progVars>>
    \/ CallCreateOrderCommitmentAgain /\ UNCHANGED <<treeVars, replayVars, progVars>>
    \/ CallVerifyMerkleProof /\ UNCHANGED <<treeVars, replayVars, progVars>>

LibInit == InitTree /\ IdleReplay /\ InitLib /\ IdleProg

SpecLib == LibInit /\ [][NextLib]_vars

(***************************************************************************)
(* Claims about the library functions.                                     *)
(***************************************************************************)
\* C4: verify_nullifier_knowledge on the commitment returned by
\* create_order_commitment is true when handed the two hashes returned with
\* it, and false as soon as either expected hash is another value.
C4_CreateThenVerifyKnowledge ==
    lib_in.fn = "verify_nullifier_knowledge" =>
        lib_out = (/\ lib_in.expected_commitment_hash = lib_in.nullifier_data.commitment_hash
                   /\ lib_in.expected_nullifier_hash = lib_in.nullifier_data.nullifier_hash)

\* C4 witness: verify_nullifier_knowledge was called with the returned pair and passed.
C4_Witness ==
    /\ lib_in.fn = "verify_nullifier_knowledge"
    /\ lib_in.expected_commitment_hash = lib_in.nullifier_data.commitment_hash
    /\ lib_in.expected_nullifier_hash = lib_in.nullifier_data.nullifier_hash
    /\ lib_out = TRUE

\* C5: verify_nullifier_order is true exactly when verify_nullifier_knowledge
\* passes, the balance covers amount_in (equal passes), the timestamp is not
\* past the deadline and the price is not below the target; the digest
\* comparison of its validate_order step never rejects.
C5_VerifyNullifierOrderIsConjunction ==
    lib_in.fn = "verify_nullifier_order" =>
        LET c == lib_in.commitment
            o == c.order_data
            m == lib_in.market
        IN  /\ lib_out =
                (/\ verify_nullifier_knowledge(c, lib_in.expected_commitment_hash,
                                               lib_in.expected_nullifier_hash)
                 /\ c.balance >= o.amount_in
                 /\ m.block_timestamp <= o.deadline
                 /\ m.current_price >= o.target_price)
            /\ validate_order(o, m, hash_order(o)) =
                (m.block_timestamp <= o.deadline /\ m.current_price >= o.target_price)

\* C5 witness: an order accepted with the balance exactly equal to amount_in.
C5_Witness ==
    /\ lib_in.fn = "verify_nullifier_order"
    /\ lib_out = TRUE
    /\ lib_in.commitment.balance = lib_in.commitment.order_data.amount_in
    /\ lib_in.commitment.balance > 0

\* C7: validate_order is true exactly when timestamp <= deadline, price >=
\* target and hash_order(order) equals the expected digest: a timestamp equal
\* to the deadline passes, one past it fails, a price equal to the target
\* passes.
C7_ValidateOrderIsConjunction ==
    lib_in.fn = "validate_order" =>
        LET o == lib_in.order
            m == lib_in.market
            digest_ok == hash_order(o) = lib_in.expected_hash
        IN  /\ lib_out = (/\ digest_ok
                          /\ m.current_price >= o.target_price
                          /\ m.block_timestamp <= o.deadline)
            /\ (m.block_timestamp = o.deadline + 1) => lib_out = FALSE
            /\ (/\ m.block_timestamp = o.deadline
                /\ m.current_price = o.target_price
                /\ digest_ok) => lib_out = TRUE

\* C7 witness: an order accepted with the timestamp on the deadline and the
\* price on the target.
C7_Witness ==
    /\ lib_in.fn = "validate_order"
    /\ lib_in.market.block_timestamp = lib_in.order.deadline
    /\ lib_in.market.current_price = lib_in.order.target_price
    /\ lib_out = TRUE

\* C14: the nullifier and the nullifier hash returned by
\* create_order_commitment are fixed by (user_secret, order_context): they are
\* the ORDER_NULLIFIER digest of the two and its NULLIFIER_HASH digest, and a
\* second commitment made with the same secret and context carries the same
\* nullifier and nullifier hash, whatever its order and balance.
C14_NullifierDependsOnSecretAndContext ==
    /\ lib_in.fn \in {"create_order_commitment", "create_order_commitment_again"} =>
          /\ lib_out.commitment.nullifier =
                generate_order_nullifier(lib_in.user_secret, lib_in.order_context)
          /\ lib_out.nullifier_data.nullifier_hash =
                compute_nullifier_hash(generate_order_nullifier(lib_in.user_secret,
                                                                lib_in.order_context))
    /\ lib_in.fn = "create_order_commitment_again" =>
          /\ lib_out.commitment.nullifier = lib_in.first.commitment.nullifier
          /\ lib_out.nullifier_data.nullifier_hash =
                lib_in.first.nullifier_data.nullifier_hash

\* C14 witness: two commitments made with one secret and one context, for
\* orders of different wallets and amounts and with different balances, whose
\* commitment hashes differ.
C14_Witness ==
    /\ lib_in.fn = "create_order_commitment_again"
    /\ lib_in.order.wallet_address # lib_in.first_order.wallet_address
    /\ lib_in.order.amount_in # lib_in.first_order.amount_in
    /\ lib_in.balance # lib_in.first_balance
    /\ lib_out.nullifier_data.commitment_hash # lib_in.first.nullifier_data.commitment_hash
    /\ lib_out.nullifier_data.nullifier_hash = lib_in.first.nullifier_data.nullifier_hash

\* C15: the byte strings hashed by the six constructions (order hash,
\* NULLIFIER_HASH, COMMITMENT_HASH, MERKLE_NODE, BALANCE_LEAF, ORDER_NULLIFIER)
\* over the values of a call are pairwise different, each construction hashes
\* a byte string of its own length, and so the digests of different
\* constructions are different: a commitment hash is never a Merkle node hash.
C15_DomainSeparation ==
    lib_in.fn \in {"create_order_commitment", "create_order_commitment_again"} =>
        LET o == lib_in.order
            b == lib_in.balance
            V == {hash_order(o), lib_out.commitment.nullifier,
                  lib_out.nullifier_data.nullifier_hash,
                  lib_out.nullifier_data.commitment_hash,
                  lib_in.user_secret, lib_in.order_context, Zero32}
            OrderHashes == {hash_order(o), hash_order(alice_order), hash_order(bob_order)}
            NullifierHashesOf == {compute_nullifier_hash(v) : v \in V}
            CommitmentHashes == {compute_commitment_hash(o, v, b) : v \in V}
            MerkleNodes == {hash_pair(x, y) : x \in V, y \in V}
            BalanceLeaves == {balance_leaf(w, b) : w \in Wallets}
            OrderNullifiers == {generate_order_nullifier(x, y) : x \in V, y \in V}
            All == <<OrderHashes, NullifierHashesOf, CommitmentHashes, MerkleNodes,
                     BalanceLeaves, OrderNullifiers>>
            Lengths == <<92, 46, 87, 75, 40, 79>>
            Inputs(S) == {hasher_input(d) : d \in S}
        IN  /\ \A i \in 1..6 : \A d \in All[i] : ByteLen(hasher_input(d)) = Lengths[i]
            /\ \A i \in 1..6 : \A j \in 1..6 :
                  i # j => /\ Inputs(All[i]) \cap Inputs(All[j]) = {}
                           /\ All[i] \cap All[j] = {}
            /\ lib_out.nullifier_data.commitment_hash \notin MerkleNodes

\* C15 witness: a commitment was created over a non-zero balance, and its
\* hash differs from the Merkle node over its order hash and nullifier.
C15_Witness ==
    /\ lib_in.fn = "create_order_commitment"
    /\ lib_in.balance > 0
    /\ lib_in.order_context = Zero32
    /\ ByteLen(hasher_input(lib_out.nullifier_data.commitment_hash)) = 87
    /\ lib_out.nullifier_data.commitment_hash #
          hash_pair(hash_order(lib_in.order), lib_out.commitment.nullifier)

\* C19: verify_merkle_proof(address, balance, siblings, indices, root) returns
\* what verify_commitment_merkle_proof returns for the leaf
\* H("BALANCE_LEAF" || address || balance little-endian) and the same lists
\* and root, also for lists of different lengths and path bits above 1.
C19_LegacyVerifierIsSameFold ==
    lib_in.fn = "verify_merkle_proof" =>
        LET leaf == finalize(update(update(update(Sha256_new, TAG_BALANCE_LEAF),
                                           lib_in.address),
                                    <<0, LeBytes(lib_in.balance, 8)>>))
        IN  /\ lib_out = verify_commitment_merkle_proof(leaf, lib_in.siblings,
                                                        lib_in.indices,
                                                        lib_in.expected_root)
            /\ Len(lib_in.siblings) # Len(lib_in.indices) => lib_out = FALSE

\* C19 witness: the legacy verifier accepted a two-sibling proof whose first
\* path bit is 255.
C19_Witness ==
    /\ lib_in.fn = "verify_merkle_proof"
    /\ lib_out = TRUE
    /\ Len(lib_in.siblings) = 2
    /\ lib_in.indices = <<255, 0>>
    /\ lib_in.balance > 0

(***************************************************************************)
(* The replay set: used_nullifiers of demonstrate_nullifier_flow, driven   *)
(* by the settlement layer's insert-if-absent-else-reject rule.            *)
(***************************************************************************)
contains_key_never(map, key) == FALSE

contains_key(map, key) == key \in DOMAIN map

insert(map, key, value) ==
    [k \in DOMAIN map \cup {key} |-> IF k = key THEN value ELSE map[k]]

charlie_order == [alice_order EXCEPT !.wallet_address = Array20(3)]

charlie_nullifier == user_create_order(Array32(3), MaxAmount, charlie_order).nullifier_data

NullifierHashes ==
    {alice_nullifier.nullifier_hash, bob_nullifier.nullifier_hash,
     charlie_nullifier.nullifier_hash}

OrderLabels == {"Alice's order", "Bob's order"}

InitReplay ==
    /\ used_nullifiers = <<>>
    /\ is_replay = FALSE
    /\ attempt = Zero32
    /\ accepted = [h \in NullifierHashes |-> 0]

\* one execution attempt: rejected when the nullifier hash is present,
\* recorded otherwise
ExecuteOrder(nullifier_hash, label) ==
    /\ attempt' = nullifier_hash
    /\ is_replay' = contains_key(used_nullifiers, nullifier_hash)
    /\ IF contains_key(used_nullifiers, nullifier_hash)
       THEN UNCHANGED <<used_nullifiers, accepted>>
       ELSE /\ used_nullifiers' = insert(used_nullifiers, nullifier_hash, label)
            /\ accepted' = [accepted EXCEPT ![nullifier_hash] = @ + 1]

Execute == \E h \in NullifierHashes, l \in OrderLabels : ExecuteOrder(h, l)

ReplayInit == InitTree /\ InitReplay /\ IdleLib /\ IdleProg

NextReplay == Execute /\ UNCHANGED <<treeVars, libVars, progVars>>

SpecReplay == ReplayInit /\ [][NextReplay]_vars

program_main_without_merkle(in) ==
    LET market == in[1]
        expected_nullifier_hash == in[3]
        order_data == in[4]
        nullifier == in[5]
        user_balance == in[6]
        computed_nullifier_hash == compute_nullifier_hash(nullifier)
        nullifier_hash_valid == computed_nullifier_hash = expected_nullifier_hash
        commitment_hash == compute_commitment_hash(order_data, nullifier, user_balance)
        commitment == [order_data |-> order_data, nullifier |-> nullifier,
                       balance |-> user_balance]
        merkle_valid == verify_commitment_merkle_proof(commitment_hash, in[7], in[8], in[2])
        order_executable == verify_nullifier_order(commitment, market, commitment_hash,
                                                   expected_nullifier_hash)
        final_validity == nullifier_hash_valid /\ order_executable
    IN  [nullifier_hash_valid |-> nullifier_hash_valid,
         merkle_valid |-> merkle_valid,
         order_executable |-> order_executable,
         final_validity |-> final_validity,
         public_values |-> <<final_validity, computed_nullifier_hash,
                             order_data.wallet_address, order_data.amount_in,
                             order_data.min_amount_out>>]

program_main_commits_expected(in) ==
    LET market == in[1]
        expected_nullifier_hash == in[3]
        order_data == in[4]
        nullifier == in[5]
        user_balance == in[6]
        computed_nullifier_hash == compute_nullifier_hash(nullifier)
        nullifier_hash_valid == computed_nullifier_hash = expected_nullifier_hash
        commitment_hash == compute_commitment_hash(order_data, nullifier, user_balance)
        commitment == [order_data |-> order_data, nullifier |-> nullifier,
                       balance |-> user_balance]
        merkle_valid == verify_commitment_merkle_proof(commitment_hash, in[7], in[8], in[2])
        order_executable == verify_nullifier_order(commitment, market, commitment_hash,
                                                   expected_nullifier_hash)
        final_validity == nullifier_hash_valid /\ merkle_valid /\ order_executable
    IN  [nullifier_hash_valid |-> nullifier_hash_valid,
         merkle_valid |-> merkle_valid,
         order_executable |-> order_executable,
         final_validity |-> final_validity,
         public_values |-> <<final_validity, expected_nullifier_hash,
                             order_data.wallet_address, order_data.amount_in,
                             order_data.min_amount_out>>]

program_main_merkle_only(in) ==
    LET market == in[1]
        expected_nullifier_hash == in[3]
        order_data == in[4]
        nullifier == in[5]
        user_balance == in[6]
        computed_nullifier_hash == compute_nullifier_hash(nullifier)
        nullifier_hash_valid == computed_nullifier_hash = expected_nullifier_hash
        commitment_hash == compute_commitment_hash(order_data, nullifier, user_balance)
        commitment == [order_data |-> order_data, nullifier |-> nullifier,
                       balance |-> user_balance]
        merkle_valid == verify_commitment_merkle_proof(commitment_hash, in[7], in[8], in[2])
        order_executable == verify_nullifier_order(commitment, market, commitment_hash,
                                                   expected_nullifier_hash)
        final_validity == merkle_valid
    IN  [nullifier_hash_valid |-> nullifier_hash_valid,
         merkle_valid |-> merkle_valid,
         order_executable |-> order_executable,
         final_validity |-> final_validity,
         public_values |-> <<final_validity, computed_nullifier_hash,
                             order_data.wallet_address, order_data.amount_in,
                             order_data.min_amount_out>>]

\* main: `in` is the sequence of values read from stdin, in reading order
program_main(in) ==
    LET market_conditions_in == in[1]
        merkle_root == in[2]
        expected_nullifier_hash == in[3]
        order_data == in[4]
        nullifier == in[5]
        user_balance == in[6]
        merkle_siblings == in[7]
        merkle_indices == in[8]
        computed_nullifier_hash == compute_nullifier_hash(nullifier)
        nullifier_hash_valid == computed_nullifier_hash = expected_nullifier_hash
        commitment_hash == compute_commitment_hash(order_data, nullifier, user_balance)
        commitment == [order_data |-> order_data, nullifier |-> nullifier,
                       balance |-> user_balance]
        merkle_valid == verify_commitment_merkle_proof(commitment_hash, merkle_siblings,
                                                       merkle_indices, merkle_root)
        order_executable == verify_nullifier_order(commitment, market_conditions_in,
                                                   commitment_hash, expected_nullifier_hash)
        final_validity == nullifier_hash_valid /\ merkle_valid /\ order_executable
    IN  [nullifier_hash_valid |-> nullifier_hash_valid,
         merkle_valid |-> merkle_valid,
         order_executable |-> order_executable,
         final_validity |-> final_validity,
         public_values |-> <<final_validity, computed_nullifier_hash,
                             order_data.wallet_address, order_data.amount_in,
                             order_data.min_amount_out>>]

\* the private nullifiers of the requests: one per user secret, for one
\* trading session
Nullifiers == {generate_order_nullifier(s, hash_order(alice_order)) : s \in Secrets}

\* another member of the tree next to the request's commitment
OtherLeaf == bob_nullifier.commitment_hash

\* roots of the trees the request's commitment hash can sit in, and the empty
\* tree's root
RootCandidates(commitment_hash) ==
    {commitment_hash, hash_pair(commitment_hash, OtherLeaf),
     hash_pair(OtherLeaf, commitment_hash), Zero32}

InitProg ==
    /\ host = NoRequest
    /\ stdin = <<>>
    /\ pc = "order"
    /\ regs = NoRegs
    /\ public_values = <<>>
    /\ prev_run = NoRun

PrepareOrder ==
    /\ pc = "order"
    /\ \E o \in Orders :
          /\ prev_run.set =>
                /\ o.wallet_address = prev_run.wallet_address
                /\ o.amount_in = prev_run.amount_in
                /\ o.min_amount_out = prev_run.min_amount_out
          /\ host' = [host EXCEPT !.order = o]
    /\ pc' = "witness"
    /\ UNCHANGED <<stdin, regs, public_values, prev_run>>

PrepareWitness ==
    /\ pc = "witness"
    /\ \E n \in Nullifiers, b \in Amounts :
          /\ prev_run.set => n = prev_run.nullifier
          /\ host' = [host EXCEPT !.nullifier = n, !.balance = b]
    /\ pc' = "root"
    /\ UNCHANGED <<stdin, regs, public_values, prev_run>>

PrepareRoot ==
    /\ pc = "root"
    /\ \E r \in RootCandidates(compute_commitment_hash(host.order, host.nullifier,
                                                       host.balance)) :
          host' = [host EXCEPT !.merkle_root = r]
    /\ pc' = "proof"
    /\ UNCHANGED <<stdin, regs, public_values, prev_run>>

PrepareProof ==
    /\ pc = "proof"
    /\ \E s \in {<<>>, <<OtherLeaf>>}, i \in {<<>>, <<0>>, <<1>>} :
          host' = [host EXCEPT !.siblings = s, !.indices = i]
    /\ pc' = "write"
    /\ UNCHANGED <<stdin, regs, public_values, prev_run>>

script_stdin_hash_before_root(market, h) ==
    <<market, h.expected_nullifier_hash, h.merkle_root, h.order, h.nullifier, h.balance,
      h.siblings, h.indices>>

\* run_sp1_nullifier_test: the stdin.write(..) calls, in order
script_stdin(market, h) ==
    <<market, h.merkle_root, h.expected_nullifier_hash, h.order, h.nullifier, h.balance,
      h.siblings, h.indices>>

\* prove_handler: the stdin.write(..) calls, in order
server_stdin(market, h) ==
    <<market, h.merkle_root, h.expected_nullifier_hash, h.order, h.nullifier, h.balance,
      h.siblings, h.indices>>

\* run_sp1_nullifier_test: the output.read::<T>() calls, in order
script_read_outputs(output) ==
    [is_valid |-> output[1], nullifier_hash |-> output[2], wallet_address |-> output[3],
     amount_in |-> output[4], min_amount_out |-> output[5]]

\* prove_handler: the proof.public_values.read::<T>() calls, in order
server_read_outputs(output) ==
    [is_valid |-> output[1], nullifier_hash |-> output[2], wallet_address |-> output[3],
     amount_in |-> output[4], min_amount_out |-> output[5]]

\* stdin.write(..) of the public and then the private inputs, by either host
HostWrite ==
    /\ pc = "write"
    /\ \E enh \in {compute_nullifier_hash(n) : n \in Nullifiers} :
          /\ host' = [host EXCEPT !.expected_nullifier_hash = enh]
          /\ stdin' \in {script_stdin(market_conditions, host'),
                         server_stdin(market_conditions, host')}
    /\ pc' = "execute"
    /\ UNCHANGED <<regs, public_values, prev_run>>

ProgramMain ==
    /\ pc = "execute"
    /\ LET out == program_main(stdin)
       IN  /\ regs' = [nullifier_hash_valid |-> out.nullifier_hash_valid,
                       merkle_valid |-> out.merkle_valid,
                       order_executable |-> out.order_executable,
                       final_validity |-> out.final_validity]
           /\ public_values' = out.public_values
    /\ stdin' = <<>>
    /\ pc' = "committed"
    /\ UNCHANGED <<host, prev_run>>

\* the host reads the values the program committed
HostRead ==
    /\ pc = "committed"
    /\ \E out \in {script_read_outputs(public_values),
                    server_read_outputs(public_values)} :
          host' = [host EXCEPT !.outputs = out]
    /\ pc' = "done"
    /\ UNCHANGED <<stdin, regs, public_values, prev_run>>

\* a further request for the same nullifier, wallet and amounts after an
\* invalid run
NextRequest ==
    /\ pc = "done"
    /\ ~prev_run.set
    /\ ~regs.final_validity
    /\ prev_run' = [set |-> TRUE, nullifier |-> host.nullifier,
                    wallet_address |-> host.order.wallet_address,
                    amount_in |-> host.order.amount_in,
                    min_amount_out |-> host.order.min_amount_out,
                    order_executable |-> regs.order_executable,
                    public_values |-> public_values]
    /\ host' = NoRequest
    /\ stdin' = <<>>
    /\ regs' = NoRegs
    /\ public_values' = <<>>
    /\ pc' = "order"

ProgInit == InitTree /\ IdleReplay /\ IdleLib /\ InitProg

NextProg ==
    \/ PrepareOrder /\ UNCHANGED <<treeVars, replayVars, libVars>>
    \/ PrepareWitness /\ UNCHANGED <<treeVars, replayVars, libVars>>
    \/ PrepareRoot /\ UNCHANGED <<treeVars, replayVars, libVars>>
    \/ PrepareProof /\ UNCHANGED <<treeVars, replayVars, libVars>>
    \/ HostWrite /\ UNCHANGED <<treeVars, replayVars, libVars>>
    \/ ProgramMain /\ UNCHANGED <<treeVars, replayVars, libVars>>
    \/ HostRead /\ UNCHANGED <<treeVars, replayVars, libVars>>
    \/ NextRequest /\ UNCHANGED <<treeVars, replayVars, libVars>>

SpecProg == ProgInit /\ [][NextProg]_vars

(***************************************************************************)
(* Claims about the proof program.                                         *)
(***************************************************************************)
\* C6: the committed validity boolean is true exactly when the nullifier hash
\* recomputed from the private nullifier equals the public one, the Merkle
\* proof of the recomputed commitment hash resolves to the public root, the
\* balance covers amount_in and the deadline and price conditions hold.
C6_ValidityIsConjunction ==
    pc = "done" =>
        LET o == host.order
            price_ok == market_conditions.current_price >= o.target_price
            deadline_ok == market_conditions.block_timestamp <= o.deadline
            balance_ok == host.balance >= o.amount_in
            merkle_ok ==
                verify_commitment_merkle_proof(
                    compute_commitment_hash(o, host.nullifier, host.balance),
                    host.siblings, host.indices, host.merkle_root)
            nullifier_ok ==
                compute_nullifier_hash(host.nullifier) = host.expected_nullifier_hash
        IN  /\ public_values[1] = (price_ok /\ deadline_ok /\ balance_ok /\ merkle_ok
                                   /\ nullifier_ok)
            /\ public_values[1] = regs.final_validity

\* C6 witness: a run committed validity = true on a one-sibling proof.
C6_Witness ==
    /\ pc = "done"
    /\ public_values[1] = TRUE
    /\ Len(host.siblings) = 1

\* C9: two invalid runs for the same private nullifier, wallet address,
\* amount_in and min_amount_out commit identical public values, whatever made
\* each of them invalid.
C9_InvalidRunsIndistinguishable ==
    (/\ pc = "done"
     /\ prev_run.set
     /\ ~regs.final_validity
     /\ host.nullifier = prev_run.nullifier
     /\ host.order.wallet_address = prev_run.wallet_address
     /\ host.order.amount_in = prev_run.amount_in
     /\ host.order.min_amount_out = prev_run.min_amount_out)
    => public_values = prev_run.public_values

\* C9 witness: the earlier run failed the order check; this one passes the
\* order check and the nullifier-hash check and fails only because its sibling
\* and path-bit lists have different lengths.
C9_Witness ==
    /\ pc = "done"
    /\ prev_run.set
    /\ ~prev_run.order_executable
    /\ ~regs.final_validity
    /\ regs.order_executable
    /\ regs.nullifier_hash_valid
    /\ Len(host.siblings) # Len(host.indices)

\* C10: when the sibling list and the path-bit list differ in length, the
\* result of verify_commitment_merkle_proof is an explicit failure, not one
\* of the two booleans a proof verification returns.
C10_LengthMismatchIsExplicitFailure ==
    (pc = "done" /\ Len(host.siblings) # Len(host.indices)) =>
        regs.merkle_valid \notin BOOLEAN

\* C18: the program reads from stdin the eight values the host wrote, each as
\* the value the host meant by it (market, Merkle root, expected nullifier
\* hash, then order, private nullifier, balance, siblings, path bits), and
\* the host reads the five committed values as the program meant them
\* (validity, recomputed nullifier hash, wallet address, amount_in,
\* min_amount_out), on valid and invalid runs alike.
C18_HostAndProgramAgreeOnOrder ==
    LET commitment_hash == compute_commitment_hash(host.order, host.nullifier, host.balance)
        commitment == [order_data |-> host.order, nullifier |-> host.nullifier,
                       balance |-> host.balance]
    IN  /\ pc = "execute" =>
              stdin = <<market_conditions, host.merkle_root, host.expected_nullifier_hash,
                        host.order, host.nullifier, host.balance, host.siblings,
                        host.indices>>
        /\ pc \in {"committed", "done"} =>
              /\ regs.nullifier_hash_valid =
                    (compute_nullifier_hash(host.nullifier) = host.expected_nullifier_hash)
              /\ regs.merkle_valid =
                    verify_commitment_merkle_proof(commitment_hash, host.siblings,
                                                   host.indices, host.merkle_root)
              /\ regs.order_executable =
                    verify_nullifier_order(commitment, market_conditions, commitment_hash,
                                           host.expected_nullifier_hash)
              /\ public_values = <<regs.final_validity,
                                   compute_nullifier_hash(host.nullifier),
                                   host.order.wallet_address, host.order.amount_in,
                                   host.order.min_amount_out>>
        /\ pc = "done" =>
              host.outputs = [is_valid |-> regs.final_validity,
                              nullifier_hash |-> compute_nullifier_hash(host.nullifier),
                              wallet_address |-> host.order.wallet_address,
                              amount_in |-> host.order.amount_in,
                              min_amount_out |-> host.order.min_amount_out]

\* C18 witness: the host has read the outputs of an invalid run whose Merkle
\* root and expected nullifier hash were both right for the request.
C18_Witness ==
    /\ pc = "done"
    /\ ~host.outputs.is_valid
    /\ regs.nullifier_hash_valid
    /\ regs.merkle_valid
    /\ host.outputs.amount_in > 0
    /\ host.outputs.nullifier_hash = host.expected_nullifier_hash
    /\ host.outputs.wallet_address = host.order.wallet_address

\* C21: whenever the program commits validity = true, the committed nullifier
\* hash is the public expected nullifier hash, the commitment hash of the
\* request's order, private nullifier and balance verifies against the public
\* root with the given path, the committed wallet address, amount_in and
\* min_amount_out are that order's, and no other order or balance gives, with
\* the same nullifier, a commitment hash that the same path proves under the
\* same root.
C21_ValidOutputsAreBound ==
    (pc \in {"committed", "done"} /\ public_values[1] = TRUE) =>
        /\ public_values[2] = host.expected_nullifier_hash
        /\ public_values[2] = compute_nullifier_hash(host.nullifier)
        /\ verify_commitment_merkle_proof(
               compute_commitment_hash(host.order, host.nullifier, host.balance),
               host.siblings, host.indices, host.merkle_root)
        /\ public_values[3] = host.order.wallet_address
        /\ public_values[4] = host.order.amount_in
        /\ public_values[5] = host.order.min_amount_out
        /\ \A o \in Orders : \A b \in Amounts :
              verify_commitment_merkle_proof(
                  compute_commitment_hash(o, host.nullifier, b),
                  host.siblings, host.indices, host.merkle_root)
              => /\ o = host.order
                 /\ b = host.balance
                 /\ public_values[3] = o.wallet_address
                 /\ public_values[4] = o.amount_in
                 /\ public_values[5] = o.min_amount_out

\* C21 witness: a run committed validity = true for an order of the second
\* wallet with a positive amount, proved as the right child under the root.
C21_Witness ==
    /\ pc = "committed"
    /\ public_values[1] = TRUE
    /\ public_values[3] = Array20(2)
    /\ public_values[4] > 0
    /\ host.indices = <<1>>
    /\ host.merkle_root = hash_pair(OtherLeaf, compute_commitment_hash(host.order,
                                                                       host.nullifier,
                                                                       host.balance))

\* C22: whenever verify_nullifier_order returns true for the commitment built
\* from the private inputs and the expected nullifier hash, the program's own
\* nullifier-hash comparison is true as well, so the committed validity equals
\* merkle_valid /\ order_executable.
C22_OrderCheckImpliesNullifierHashCheck ==
    pc \in {"committed", "done"} =>
        /\ regs.order_executable => regs.nullifier_hash_valid
        /\ regs.final_validity = (regs.merkle_valid /\ regs.order_executable)
        /\ public_values[1] = (regs.merkle_valid /\ regs.order_executable)
        /\ (compute_nullifier_hash(host.nullifier) # host.expected_nullifier_hash) =>
              (~regs.order_executable /\ ~regs.nullifier_hash_valid)

\* C22 witness: a run whose order and Merkle proof were right in every respect
\* but whose expected nullifier hash was that of another nullifier: the order
\* check and the nullifier-hash comparison both failed.
C22_Witness ==
    /\ pc = "done"
    /\ regs.merkle_valid
    /\ ~regs.order_executable
    /\ ~regs.nullifier_hash_valid
    /\ host.balance >= host.order.amount_in
    /\ validate_order(host.order, market_conditions, hash_order(host.order))

====
